---- MODULE Spec2Model ----
(***************************************************************************)
(* Servo controller of the waste classifier (esp32_servo_control.ino).     *)
(*                                                                         *)
(* The sketch is run by the Arduino main task, which repeats               *)
(*     loop(); if (Serial.available()) serialEvent();                      *)
(* for ever.  loop() is modelled in three steps (the dispatch of a         *)
(* completed line up to the "OK", the arming of the return and the clear   *)
(* of the buffer, the check of the return timer); serialEvent() is one     *)
(* step that drains the receive buffer of the UART.  Bytes travel from the *)
(* sender (wire) into the receive buffer (rx) one at a time, at any        *)
(* moment, and the millisecond clock advances at any moment.               *)
(*                                                                         *)
(* A string is a sequence of one-character strings.                        *)
(***************************************************************************)
EXTENDS Integers, Sequences, FiniteSets, TLC

VARIABLES
    pc,              \* position of the main task: "task1", "arm", "task2", "event"
    inputString,     \* String inputString
    stringComplete,  \* bool stringComplete
    lastMoveTime,    \* unsigned long lastMoveTime
    needsReturn,     \* bool needsReturn
    servoMotor,      \* last angle written to the servo
    rx,              \* bytes received by the UART and not yet read
    wire,            \* bytes of the current line the sender has not yet delivered
    now,             \* millis(), modulo 2^32
    log,             \* history: dispatched commands, timer firings, servo writes, printed lines
    recvd,           \* history: every byte read by serialEvent, in order
    sentLines,       \* history: the lines the sender has sent
    elapsed,         \* history: real milliseconds since the initial state
    ticks,           \* number of clock advances taken
    dispatchAt,      \* history: value of elapsed when the last line was dispatched
    iterCmd,         \* history: the current iteration of loop() has dispatched a line
    partial,         \* history: the completed line was begun by an earlier serialEvent
    polite           \* history: the sender has always waited for the OK of the previous line

vars == <<pc, inputString, stringComplete, lastMoveTime, needsReturn, servoMotor,
          rx, wire, now, log, recvd, sentLines, elapsed, ticks, dispatchAt, partial,
          polite, iterCmd>>

----------------------------------------------------------------------------
(* Configuration of the sketch *)

POS_HOME == 0
POS_PLASTICO == 60
POS_ORGANICO == 120
POS_METAL == 180
RETURN_DELAY == 3000

\* inputString.reserve(20), line 51
RESERVE == 20

\* unsigned long is 32 bits wide on the ESP32.  A value x is held as the pair
\* <<x \div 2^16, x % 2^16>> of its two 16-bit halves, and the arithmetic
\* below is exact arithmetic modulo 2^32 on such pairs.
HALF == 65536
ULong(hi, lo) == <<hi, lo>>

PLASTICO == <<"P", "L", "A", "S", "T", "I", "C", "O">>
ORGANICO == <<"O", "R", "G", "A", "N", "I", "C", "O">>
METAL == <<"M", "E", "T", "A", "L">>

NL == "\n"

\* the byte 0x07, a control character that is no whitespace
BEL == "^G"

----------------------------------------------------------------------------
(* Bounds of the model *)

\* number of lines the sender sends
MaxLines == 2

\* number of clock advances
MaxTicks == 2

\* the clock advances by one of these amounts (milliseconds)
SmallStep == 1
BigStep == 1500
TickSteps == {SmallStep, BigStep}

\* values of millis() in the initial state: just after setup, and shortly
\* before the 32-bit clock wraps
BootClocks == {ULong(0, 500), ULong(HALF - 1, HALF - 1501)}

\* the lines the sender may send (without their terminator)
Lines == {PLASTICO, ORGANICO, METAL, <<>>,
          <<"M", "E", "T", "A", "L", "\r">>,
          <<"x">>}

\* the lines the sender may send in the liveness checks
LiveLines == {METAL, <<>>, <<"x">>}

\* lines longer than the reserved capacity: METAL behind spaces, and junk
LongMetal == [i \in 1..(RESERVE - 4) |-> " "] \o METAL
LongJunk == [i \in 1..(RESERVE + 1) |-> "x"]
LongLines == {LongMetal, LongJunk, <<"x">>}

----------------------------------------------------------------------------
(* Helpers *)

Min(S) == CHOOSE x \in S : \A y \in S : x <= y
Max(S) == CHOOSE x \in S : \A y \in S : x >= y

\* isspace() of the C library
IsSpace(c) == c \in {" ", "\t", "\n", "\r", "\f"}

\* a slip: only the end of the string is stripped
TrimTrailing(s) ==
    LET keep == {i \in 1..Len(s) : ~IsSpace(s[i])}
    IN  IF keep = {} THEN <<>> ELSE SubSeq(s, 1, Max(keep))

\* String::trim(): strips leading and trailing isspace() characters
Trim(s) ==
    LET keep == {i \in 1..Len(s) : ~IsSpace(s[i])}
    IN  IF keep = {} THEN <<>> ELSE SubSeq(s, Min(keep), Max(keep))

\* entries of the history: a line is dispatched (raw: the buffer, s: the buffer
\* trimmed, armed: needsReturn at that moment), the return timer fires, the
\* servo is written, a line is printed
CmdEv(raw, s, a) == [t |-> "cmd", raw |-> raw, s |-> s, v |-> 0, armed |-> a]
FireEv == [t |-> "fire", raw |-> <<>>, s |-> <<>>, v |-> 0, armed |-> TRUE]
WriteEv(p) == [t |-> "write", raw |-> <<>>, s |-> <<>>, v |-> p, armed |-> FALSE]
PrintEv(l) == [t |-> "print", raw |-> <<>>, s |-> l, v |-> 0, armed |-> FALSE]

OK == <<"O", "K">>
HOME_MSG == <<"H">>

----------------------------------------------------------------------------
(* loop(), lines 65-81: dispatch of a completed line *)

\* a slip: the angles of two labels exchanged
TargetSwapped(cmd) ==
    IF cmd = PLASTICO THEN <<POS_ORGANICO>>
    ELSE IF cmd = ORGANICO THEN <<POS_PLASTICO>>
    ELSE IF cmd = METAL THEN <<POS_METAL>>
    ELSE <<>>

\* a slip: the last branch of the chain left out
TargetNoMetal(cmd) ==
    IF cmd = PLASTICO THEN <<POS_PLASTICO>>
    ELSE IF cmd = ORGANICO THEN <<POS_ORGANICO>>
    ELSE <<>>

\* the if-chain of lines 73-79: the servo writes a command causes
Target(cmd) ==
    IF cmd = PLASTICO THEN <<POS_PLASTICO>>
    ELSE IF cmd = ORGANICO THEN <<POS_ORGANICO>>
    ELSE IF cmd = METAL THEN <<POS_METAL>>
    ELSE <<>>

\* the output of line 81
Ack(cmd) == <<PrintEv(OK)>>

WriteEvents(ws) == [i \in 1..Len(ws) |-> WriteEv(ws[i])]

LoopTask1 ==
    /\ pc = "task1"
    /\ IF stringComplete
       THEN LET cmd == Trim(inputString)
                ws == Target(cmd)
            IN  /\ inputString' = cmd
                /\ servoMotor' = IF ws = <<>> THEN servoMotor ELSE ws[Len(ws)]
                /\ log' = log \o <<CmdEv(inputString, cmd, needsReturn)>> \o WriteEvents(ws) \o Ack(cmd)
                /\ dispatchAt' = elapsed
                /\ pc' = "arm"
       ELSE /\ pc' = "task2"
            /\ UNCHANGED <<inputString, servoMotor, log, dispatchAt>>
    /\ iterCmd' = stringComplete
    /\ UNCHANGED <<stringComplete, lastMoveTime, needsReturn, rx, wire, now,
                   recvd, sentLines, elapsed, ticks, partial, polite>>

(* loop(), lines 84-89: arm the return, clear the buffer *)

\* a slip: the dwell start is not renewed
StaleDwellStart(t, last) == last

\* line 84: the dwell starts at the value of millis()
DwellStart(t, last) == t

\* a slip: the return is not armed
NotArmedAfter(cmd) == FALSE

\* line 85
ArmedAfter(cmd) == TRUE

\* a slip: the buffer is not cleared
KeptInput(s) == s

\* line 88
ClearedInput(s) == <<>>

LoopArm ==
    /\ pc = "arm"
    /\ lastMoveTime' = DwellStart(now, lastMoveTime)
    /\ needsReturn' = ArmedAfter(inputString)
    /\ inputString' = ClearedInput(inputString)
    /\ stringComplete' = FALSE
    /\ partial' = FALSE
    /\ pc' = "task2"
    /\ UNCHANGED <<servoMotor, rx, wire, now, log, recvd, sentLines, elapsed,
                   ticks, dispatchAt, polite, iterCmd>>

(* loop(), lines 93-97: the return timer *)

\* millis() - lastMoveTime, in unsigned 32-bit arithmetic
Since(t, last) ==
    LET borrow == IF t[2] < last[2] THEN 1 ELSE 0
    IN  ULong((t[1] - last[1] - borrow + HALF) % HALF,
              (t[2] - last[2] + HALF) % HALF)

\* x > n for an unsigned long x and a constant n < 2^16
Exceeds(x, n) == x[1] > 0 \/ x[2] > n

\* a slip: >= in place of >
ExpiredAtDelay(t, last) == Exceeds(Since(t, last), RETURN_DELAY - 1)

\* a slip: millis() > lastMoveTime + RETURN_DELAY, the sum wrapping at 2^32
ExpiredNaive(t, last) ==
    LET carry == IF last[2] + RETURN_DELAY >= HALF THEN 1 ELSE 0
        due == ULong((last[1] + carry) % HALF, (last[2] + RETURN_DELAY) % HALF)
    IN  t[1] > due[1] \/ (t[1] = due[1] /\ t[2] > due[2])

\* the condition of line 93
Expired(t, last) == Exceeds(Since(t, last), RETURN_DELAY)

\* a slip: the flag is not reset
StillArmedAfterFire == TRUE

\* line 96
ArmedAfterFire == FALSE

\* a slip: the wrong constant
HomeTargetMetal == POS_METAL

\* line 95
HomeTarget == POS_HOME

LoopTask2 ==
    /\ pc = "task2"
    /\ IF needsReturn /\ Expired(now, lastMoveTime)
       THEN /\ log' = log \o <<FireEv, PrintEv(HOME_MSG), WriteEv(HomeTarget)>>
            /\ servoMotor' = HomeTarget
            /\ needsReturn' = ArmedAfterFire
       ELSE UNCHANGED <<log, servoMotor, needsReturn>>
    /\ pc' = "event"
    /\ UNCHANGED <<inputString, stringComplete, lastMoveTime, rx, wire, now,
                   recvd, sentLines, elapsed, ticks, dispatchAt, partial, polite,
                   iterCmd>>

----------------------------------------------------------------------------
(* serialEvent(), lines 107-118 *)

\* a slip: the flag is set for every byte
ReadCharAlways(st, c) ==
    IF c = NL
    THEN [s |-> st.s, c |-> TRUE]
    ELSE [s |-> Append(st.s, c), c |-> TRUE]

\* a slip: the buffer is cleared when the terminator is read
ReadCharReset(st, c) ==
    IF c = NL
    THEN [s |-> <<>>, c |-> TRUE]
    ELSE [s |-> Append(st.s, c), c |-> st.c]

\* a slip: a buffer filled to its capacity counts as a completed line
ReadCharFlush(st, c) ==
    IF c = NL
    THEN [s |-> st.s, c |-> TRUE]
    ELSE [s |-> Append(st.s, c), c |-> (st.c \/ Len(st.s) + 1 >= RESERVE)]

\* the body of the while loop, for one byte
ReadChar(st, c) ==
    IF c = NL
    THEN [s |-> st.s, c |-> TRUE]
    ELSE [s |-> Append(st.s, c), c |-> st.c]

RECURSIVE ReadAll(_, _)
ReadAll(st, bytes) ==
    IF bytes = <<>> THEN st
    ELSE ReadAll(ReadChar(st, Head(bytes)), Tail(bytes))

\* a slip: serialEvent fills a buffer of its own
FreshStart(s, c) == [s |-> <<>>, c |-> c]

\* serialEvent works on the globals of lines 42-43
EventStart(s, c) == [s |-> s, c |-> c]

SerialEvent ==
    /\ pc = "event"
    /\ LET st == ReadAll(EventStart(inputString, stringComplete), rx)
       IN  /\ inputString' = st.s
           /\ stringComplete' = st.c
           /\ partial' = (inputString # <<>> /\ ~stringComplete /\ st.c)
    /\ recvd' = recvd \o rx
    /\ rx' = <<>>
    /\ iterCmd' = FALSE
    /\ pc' = "task1"
    /\ UNCHANGED <<lastMoveTime, needsReturn, servoMotor, wire, now, log,
                   sentLines, elapsed, ticks, dispatchAt, polite>>

----------------------------------------------------------------------------
(* The environment: the sender, the UART, the clock *)

\* number of OK lines printed so far
OkCount == Cardinality({i \in 1..Len(log) : log[i] = PrintEv(OK)})

\* the Python side sends a line of the set L, terminated by a newline
SendFrom(L) ==
    /\ wire = <<>>
    /\ Len(sentLines) < MaxLines
    /\ \E l \in L :
         /\ wire' = Append(l, NL)
         /\ sentLines' = Append(sentLines, l)
    /\ polite' = (polite /\ OkCount = Len(sentLines))
    /\ UNCHANGED <<pc, inputString, stringComplete, lastMoveTime, needsReturn,
                   servoMotor, rx, now, log, recvd, elapsed, ticks, dispatchAt,
                   partial, iterCmd>>

Send == SendFrom(Lines)

\* the sender of the liveness checks
LiveSend == SendFrom(LiveLines)

\* a sender of long lines, which waits for the OK of a line before the next
LongSend == OkCount = Len(sentLines) /\ SendFrom(LongLines)

\* one byte reaches the receive buffer of the UART
Arrive ==
    /\ wire # <<>>
    /\ rx' = Append(rx, Head(wire))
    /\ wire' = Tail(wire)
    /\ UNCHANGED <<pc, inputString, stringComplete, lastMoveTime, needsReturn,
                   servoMotor, now, log, recvd, sentLines, elapsed, ticks,
                   dispatchAt, partial, polite, iterCmd>>

\* millis() after d more milliseconds (d < 2^16), wrapping at 2^32
Later(t, d) ==
    LET carry == IF t[2] + d >= HALF THEN 1 ELSE 0
    IN  ULong((t[1] + carry) % HALF, (t[2] + d) % HALF)

\* Time passes.  The sketch reads the clock at lines 84 and 93 only, so the
\* clock is advanced where a read can tell: before the dispatch of lines
\* 65-89, which takes no time, and before the check of line 93.  Between
\* line 84 and line 93 of one iteration nothing blocks, so the clock advances
\* there by small steps only; any time that passes between two iterations
\* passes before line 65.  Beyond MaxTicks advances, time passes only while a
\* return is pending and not yet due, in big steps.
Tick ==
    /\ pc \in {"task1", "task2"}
    /\ \E d \in TickSteps :
         /\ pc = "task2" => d = SmallStep
         /\ \/ ticks < MaxTicks
            \/ needsReturn /\ ~Expired(now, lastMoveTime) /\ d = BigStep
         /\ now' = Later(now, d)
         /\ elapsed' = elapsed + d
    /\ ticks' = IF ticks < MaxTicks THEN ticks + 1 ELSE ticks
    /\ UNCHANGED <<pc, inputString, stringComplete, lastMoveTime, needsReturn,
                   servoMotor, rx, wire, log, recvd, sentLines, dispatchAt, partial,
                   polite, iterCmd>>

----------------------------------------------------------------------------

Init ==
    /\ pc = "task1"
    /\ inputString = <<>>
    /\ stringComplete = FALSE
    /\ lastMoveTime = ULong(0, 0)
    /\ needsReturn = FALSE
    /\ servoMotor = POS_HOME
    /\ rx = <<>>
    /\ wire = <<>>
    /\ now \in BootClocks
    /\ log = <<>>
    /\ recvd = <<>>
    /\ sentLines = <<>>
    /\ elapsed = 0
    /\ ticks = 0
    /\ dispatchAt = 0
    /\ partial = FALSE
    /\ polite = TRUE
    /\ iterCmd = FALSE

Next ==
    \/ LoopTask1
    \/ LoopArm
    \/ LoopTask2
    \/ SerialEvent
    \/ Send
    \/ Arrive
    \/ Tick

Spec == Init /\ [][Next]_vars

LiveNext ==
    \/ LoopTask1
    \/ LoopArm
    \/ LoopTask2
    \/ SerialEvent
    \/ LiveSend
    \/ Arrive
    \/ Tick

\* The main task never stops, and time never stops: the clock advance, which
\* the model takes at two positions of the main task only, is taken again and
\* again while the main task keeps passing them.  The sender is under no
\* obligation.
LiveSpec ==
    /\ Init
    /\ [][LiveNext]_vars
    /\ WF_vars(LoopTask1)
    /\ WF_vars(LoopArm)
    /\ WF_vars(LoopTask2)
    /\ WF_vars(SerialEvent)
    /\ SF_vars(Tick)

LongNext ==
    \/ LoopTask1
    \/ LoopArm
    \/ LoopTask2
    \/ SerialEvent
    \/ LongSend
    \/ Arrive
    \/ Tick

LongSpec == Init /\ [][LongNext]_vars

TypeOK ==
    /\ pc \in {"task1", "arm", "task2", "event"}
    /\ stringComplete \in BOOLEAN
    /\ needsReturn \in BOOLEAN
    /\ servoMotor \in {POS_HOME, POS_PLASTICO, POS_ORGANICO, POS_METAL}
    /\ now \in (0..(HALF - 1)) \X (0..(HALF - 1))
    /\ lastMoveTime \in (0..(HALF - 1)) \X (0..(HALF - 1))

----------------------------------------------------------------------------
(* Reading the history *)

Recognized == {PLASTICO, ORGANICO, METAL}

\* the position the protocol assigns to a recognized label
position(l) ==
    CASE l = PLASTICO -> POS_PLASTICO
      [] l = ORGANICO -> POS_ORGANICO
      [] l = METAL -> POS_METAL

IsCmd(e) == e.t = "cmd"
IsFire(e) == e.t = "fire"
IsWrite(e) == e.t = "write"

CmdIdx == {i \in 1..Len(log) : IsCmd(log[i])}
FireIdx == {i \in 1..Len(log) : IsFire(log[i])}

\* the dispatched commands, in order
CmdSeq == SelectSeq(log, IsCmd)

\* the entries that follow the dispatch at i, up to the next dispatch
NextCmd(i) == Min({j \in CmdIdx : j > i} \cup {Len(log) + 1})
After(i) == (i + 1)..(NextCmd(i) - 1)

OksAfter(i) == {j \in After(i) : log[j] = PrintEv(OK)}
WritesAfter(i) == {j \in After(i) : IsWrite(log[j])}
FiresAfter(i) == {j \in After(i) : IsFire(log[j])}

\* the writes the line dispatched at i causes: those of its dispatch, and
\* that of the return it arms (a return armed before it is not its own)
DispatchWrites(i) == {j \in WritesAfter(i) : \A k \in FiresAfter(i) : j < k}
CausedWrites(i) ==
    IF log[i].armed THEN DispatchWrites(i) ELSE WritesAfter(i)

\* number of line terminators read so far
NlCount == Cardinality({i \in 1..Len(recvd) : recvd[i] = NL})

\* every completed line has been dispatched
Settled == ~stringComplete

\* nothing is in flight
Drained == wire = <<>> /\ rx = <<>> /\ ~stringComplete

----------------------------------------------------------------------------
(* C1: a completed line whose content is a recognized label L, when it is  *)
(* dispatched, produces exactly one servo write, of position(L), followed  *)
(* by exactly one OK line.                                                 *)
C1_RecognizedLine ==
    \A i \in CmdIdx :
        log[i].raw \in Recognized =>
            /\ i + 2 <= Len(log)
            /\ log[i + 1] = WriteEv(position(log[i].raw))
            /\ log[i + 2] = PrintEv(OK)
            /\ DispatchWrites(i) = {i + 1}
            /\ OksAfter(i) = {i + 2}

\* each of the three labels is seen dispatched; two of them in one run
C1_Witness ==
    /\ Len(CmdSeq) = 2
    /\ CmdSeq[1].raw = ORGANICO
    /\ CmdSeq[2].raw = PLASTICO
    /\ servoMotor = POS_PLASTICO

(* C2: a line whose trimmed content is no recognized label (the empty line *)
(* included) produces exactly one OK line and no servo write at all, the   *)
(* write of the return it arms included.                                   *)
C2_UnrecognizedNoWrite ==
    \A i \in CmdIdx :
        log[i].s \notin Recognized =>
            /\ Cardinality(OksAfter(i)) = 1
            /\ CausedWrites(i) = {}

(* C3: the number of OK lines printed equals the number of line            *)
(* terminators received, once every completed line has been dispatched.    *)
C3_OneAckPerTerminator ==
    Settled => OkCount = NlCount

(* C4: while the sender waits for the OK of a line before it sends the     *)
(* next, the k-th dispatched command is exactly the k-th line sent         *)
(* (trimmed), each is acknowledged once, at most one line is outstanding,  *)
(* and when nothing is in flight every line has been dispatched and the    *)
(* buffer is empty.                                                        *)
C4_StopAndWait ==
    polite =>
        /\ Len(CmdSeq) <= Len(sentLines)
        /\ Len(sentLines) <= Len(CmdSeq) + 1
        /\ \A k \in 1..Len(CmdSeq) :
               /\ CmdSeq[k].raw = sentLines[k]
               /\ CmdSeq[k].s = Trim(sentLines[k])
        /\ OkCount = Len(CmdSeq)
        /\ (Drained /\ pc # "arm") =>
               (Len(CmdSeq) = Len(sentLines) /\ inputString = <<>>)

\* two lines sent one after the other's OK, the first with a carriage return
C4_Witness ==
    /\ polite
    /\ Len(sentLines) = 2
    /\ Len(CmdSeq) = 2
    /\ sentLines[1] = <<"M", "E", "T", "A", "L", "\r">>
    /\ CmdSeq[1].s = METAL
    /\ sentLines[2] = <<"x">>

----------------------------------------------------------------------------
(* Reading the history: the return timer *)

\* the dispatch that precedes entry i, or 0
PrevCmd(i) == Max({j \in CmdIdx : j < i} \cup {0})

\* the latest dispatch of a recognized command or firing of the timer, or 0
LastMove ==
    Max({i \in 1..Len(log) :
            \/ IsFire(log[i])
            \/ IsCmd(log[i]) /\ log[i].s \in Recognized} \cup {0})

\* the step appends a firing of the timer to the history
FireStep == Len(log') > Len(log) /\ log'[Len(log) + 1] = FireEv

\* a recognized command dispatched while the timer was armed
ReArming(i) == IsCmd(log[i]) /\ log[i].armed /\ log[i].s \in Recognized

(* C5: when a recognized command is dispatched while the timer is armed,   *)
(* no return has fired between the previous command and this one, at most *)
(* one fires after it (exactly one once the timer is idle again), a return *)
(* fires only when more than RETURN_DELAY ms have passed since the latest  *)
(* dispatch, and until it fires the servo is at this command's position.   *)
C5_ReArmState ==
    \A i \in CmdIdx :
        ReArming(i) =>
            /\ PrevCmd(i) > 0
            /\ FiresAfter(PrevCmd(i)) = {}
            /\ Cardinality(FiresAfter(i)) <= 1
            /\ (NextCmd(i) > Len(log) /\ FiresAfter(i) = {}) =>
                   servoMotor = position(log[i].s)
            /\ (NextCmd(i) > Len(log) /\ pc # "arm" /\ ~needsReturn) =>
                   Cardinality(FiresAfter(i)) = 1

C5_FireLate == FireStep => elapsed - dispatchAt > RETURN_DELAY

C5_DwellReArming == [](C5_ReArmState) /\ [][C5_FireLate]_vars

\* METAL, then ORGANICO while armed, then the one return
C5_Witness ==
    /\ Len(CmdSeq) = 2
    /\ CmdSeq[1].s = METAL
    /\ CmdSeq[2].s = ORGANICO
    /\ CmdSeq[2].armed
    /\ Cardinality(FireIdx) = 1
    /\ ~needsReturn
    /\ servoMotor = POS_HOME

(* C6: between two firings of the return timer a line is dispatched, and   *)
(* a firing writes the servo exactly once, with POS_HOME.                  *)
C6_FireOnceToHome ==
    \A i \in FireIdx :
        /\ i + 2 <= Len(log)
        /\ log[i + 2] = WriteEv(POS_HOME)
        /\ (i + 3 <= Len(log)) => ~IsWrite(log[i + 3])
        /\ \A j \in FireIdx : j < i => \E k \in CmdIdx : j < k /\ k < i

\* the timer has fired twice, for two lines
C6_Witness ==
    /\ Cardinality(FireIdx) = 2
    /\ Len(CmdSeq) = 2
    /\ CmdSeq[1].s = PLASTICO

(* C7: the servo is at the position of the latest dispatched recognized    *)
(* command, unless the return timer has fired since (or no command was     *)
(* dispatched yet): then it is at POS_HOME.                                *)
C7_ServoPosition ==
    servoMotor = IF LastMove = 0 \/ IsFire(log[LastMove])
                 THEN POS_HOME
                 ELSE position(log[LastMove].s)

\* a recognized command, a return, then an unrecognized line that re-arms
C7_Witness ==
    /\ Len(CmdSeq) = 2
    /\ CmdSeq[1].s = ORGANICO
    /\ CmdSeq[2].s = <<"x">>
    /\ FireIdx # {}
    /\ LastMove \in FireIdx
    /\ needsReturn

----------------------------------------------------------------------------
(* C8: after a recognized command is dispatched, unless a further line is  *)
(* dispatched, the timer eventually fires: the servo is written to         *)
(* POS_HOME and needsReturn is false; and needsReturn never turns false    *)
(* at or before RETURN_DELAY ms after the latest dispatch.                 *)
AwaitingReturn(n) ==
    /\ Len(CmdSeq) = n
    /\ LastMove > 0
    /\ IsCmd(log[LastMove])

Returned ==
    /\ LastMove > 0
    /\ IsFire(log[LastMove])
    /\ log[Len(log)] = WriteEv(POS_HOME)
    /\ servoMotor = POS_HOME
    /\ ~needsReturn

C8_Disarm ==
    (needsReturn /\ ~needsReturn') =>
        (elapsed - dispatchAt > RETURN_DELAY /\ servoMotor' = POS_HOME)

C8_ReturnLiveness ==
    /\ \A n \in 1..MaxLines :
           AwaitingReturn(n) ~> (Returned \/ Len(CmdSeq) > n)
    /\ [][C8_Disarm]_vars

\* METAL alone, and the return it armed has fired
C8_Witness ==
    /\ Len(sentLines) = 1
    /\ Len(CmdSeq) = 1
    /\ CmdSeq[1].s = METAL
    /\ Returned
    /\ elapsed - dispatchAt > RETURN_DELAY

----------------------------------------------------------------------------
(* C9: a line that reaches serialEvent in several pieces, with loop        *)
(* iterations in between, causes the servo writes and OK lines that the    *)
(* same line causes when one serialEvent reads it whole.                   *)

\* what the dispatch of a line read whole into an empty buffer produces
WholeEffect(line) ==
    LET st == ReadAll([s |-> <<>>, c |-> FALSE], Append(line, NL))
    IN  WriteEvents(Target(Trim(st.s))) \o Ack(Trim(st.s))

\* the k-th dispatch and what it produced, up to the next dispatch or firing
CmdPos(k) == CHOOSE i \in CmdIdx : Cardinality({j \in CmdIdx : j <= i}) = k
EffectEnd(i) ==
    Min({j \in (i + 1)..Len(log) : IsCmd(log[j]) \/ IsFire(log[j])}
        \cup {Len(log) + 1})
EffectsOf(i) == SubSeq(log, i + 1, EffectEnd(i) - 1)

C9_ChunkedEquivalence ==
    polite =>
        \A k \in 1..Len(CmdSeq) : EffectsOf(CmdPos(k)) = WholeEffect(sentLines[k])

\* PLASTICO, begun by one serialEvent and completed by a later one, dispatched
C9_Witness ==
    /\ polite
    /\ partial
    /\ pc = "arm"
    /\ Len(CmdSeq) = 1
    /\ CmdSeq[1].raw = PLASTICO
    /\ log[Len(log)] = PrintEv(OK)

----------------------------------------------------------------------------
(* C10: the dispatched commands are the received stream split at its line  *)
(* terminators: the k-th command is the bytes between the (k-1)-th and the *)
(* k-th terminator, and each terminator completes one command.             *)

\* the lines of a byte stream, each ended by a terminator
RECURSIVE SplitLines(_, _)
SplitLines(bytes, cur) ==
    IF bytes = <<>> THEN <<>>
    ELSE IF Head(bytes) = NL
         THEN <<cur>> \o SplitLines(Tail(bytes), <<>>)
         ELSE SplitLines(Tail(bytes), Append(cur, Head(bytes)))

C10_LineSegmentation ==
    LET lines == SplitLines(recvd, <<>>)
    IN  /\ Len(CmdSeq) <= Len(lines)
        /\ \A k \in 1..Len(CmdSeq) : CmdSeq[k].raw = lines[k]
        /\ Settled => Len(CmdSeq) = Len(lines)

----------------------------------------------------------------------------
(* The dispatch of one completed line: the buffer holds a line that         *)
(* serialEvent has read whole, and the main task runs on from there.        *)

\* what may stand before and behind the text of a line
LeftPads == {<<>>, <<" ">>, <<"\t">>, <<"\r">>}
RightPads == {<<>>, <<"\r">>, <<" ">>, <<"\r", " ">>}

\* texts of lines: the labels, and near misses of a label
Cores == {PLASTICO, ORGANICO, METAL,
          <<"m", "e", "t", "a", "l">>,
          <<"M", "e", "t", "a", "l">>,
          <<"M", "E", "T", "A">>,
          <<"M", "E", "T", "A", "L", "X">>,
          <<"M", "E", " ", "T", "A", "L">>,
          <<"M", "E", "T", "A", "L", BEL>>,
          <<>>}

Buffers == {l \o c \o r : l \in LeftPads, c \in Cores, r \in RightPads}

DispatchInit ==
    /\ pc = "task1"
    /\ inputString \in Buffers
    /\ stringComplete = TRUE
    /\ lastMoveTime = ULong(0, 0)
    /\ needsReturn = FALSE
    /\ servoMotor = POS_HOME
    /\ rx = <<>>
    /\ wire = <<>>
    /\ now \in BootClocks
    /\ log = <<>>
    /\ recvd = Append(inputString, NL)
    /\ sentLines = <<inputString>>
    /\ elapsed = 0
    /\ ticks = 0
    /\ dispatchAt = 0
    /\ partial = FALSE
    /\ polite = TRUE
    /\ iterCmd = FALSE

DispatchNext ==
    \/ LoopTask1
    \/ LoopArm
    \/ LoopTask2
    \/ SerialEvent
    \/ Tick

DispatchSpec == DispatchInit /\ [][DispatchNext]_vars

\* the characters the claims call whitespace, and those they call control
\* characters
Whitespace == {" ", "\t", "\n", "\r", "\f"}
Control == {"\t", "\n", "\r", "\f", BEL}

\* s without its leading and trailing characters of the set S
RECURSIVE DropLeading(_, _)
DropLeading(s, S) ==
    IF s # <<>> /\ Head(s) \in S THEN DropLeading(Tail(s), S) ELSE s

RECURSIVE DropTrailing(_, _)
DropTrailing(s, S) ==
    IF s # <<>> /\ s[Len(s)] \in S
    THEN DropTrailing(SubSeq(s, 1, Len(s) - 1), S)
    ELSE s

Stripped(s, S) == DropTrailing(DropLeading(s, S), S)

\* the dispatch at i wrote the servo
Moved(i) == DispatchWrites(i) # {}

----------------------------------------------------------------------------
(* C12: whenever needsReturn is true the servo is away from POS_HOME.      *)
C12_ArmedAwayFromHome == needsReturn => servoMotor # POS_HOME

C14_UnrecognizedKeepsTimer ==
    [][(pc = "arm" /\ inputString \notin Recognized) =>
           (needsReturn' = needsReturn /\ lastMoveTime' = lastMoveTime)]_vars

----------------------------------------------------------------------------
(* C15: a serialEvent that reads no terminator appends the bytes to the    *)
(* buffer and changes nothing else of the program: no servo write, no      *)
(* printed line, no change of needsReturn, lastMoveTime or stringComplete; *)
(* loop() leaves an incomplete line in the buffer; and needsReturn and     *)
(* lastMoveTime change only in the dispatch of a completed line or when    *)
(* the dwell has expired.                                                  *)
NoTerminator(bytes) == \A i \in 1..Len(bytes) : bytes[i] # NL

C15_ReadOnlyBuffers ==
    (pc = "event" /\ pc' = "task1" /\ NoTerminator(rx)) =>
        /\ inputString' = inputString \o rx
        /\ UNCHANGED <<stringComplete, needsReturn, lastMoveTime, servoMotor, log>>

C15_PartialStays ==
    (pc \in {"task1", "task2"} /\ ~stringComplete) => inputString' = inputString

C15_TimerCauses ==
    (needsReturn' # needsReturn \/ lastMoveTime' # lastMoveTime) =>
        \/ pc = "arm" /\ stringComplete
        \/ pc = "task2" /\ needsReturn /\ elapsed - dispatchAt > RETURN_DELAY

C15_PartialLineFrame ==
    /\ [][C15_ReadOnlyBuffers]_vars
    /\ [][C15_PartialStays]_vars
    /\ [][C15_TimerCauses]_vars

\* PLAS is buffered, the main task has gone round with it, nothing else moved
C15_Witness ==
    /\ inputString = <<"P", "L", "A", "S">>
    /\ ~stringComplete
    /\ pc = "event"
    /\ rx = <<"T", "I">>
    /\ log = <<>>
    /\ ~needsReturn
    /\ elapsed > 0

----------------------------------------------------------------------------
(* C16: in one iteration of loop() the servo write of a line comes first,  *)
(* then its OK, then the arming of the timer, then the check of the timer: *)
(* nothing is written or printed between the read of a terminator and the  *)
(* OK of its line except that line's servo write, and the timer does not   *)
(* fire in an iteration that has dispatched a line.                        *)
C16_DispatchOrder ==
    \A i \in CmdIdx :
        /\ i < Len(log)
        /\ \/ log[i + 1] = PrintEv(OK)
           \/ /\ i + 2 <= Len(log)
              /\ IsWrite(log[i + 1])
              /\ log[i + 2] = PrintEv(OK)

C16_ReadToAck ==
    (stringComplete /\ pc # "arm") =>
        /\ pc = "task1"
        /\ (log' # log) => (pc' = "arm" /\ log'[Len(log')] = PrintEv(OK)
                              /\ IsCmd(log'[Len(log) + 1]))

C16_ArmAfterAck ==
    (pc = "arm") =>
        /\ log[Len(log)] = PrintEv(OK)
        /\ log' = log
        /\ (pc' # pc) => (pc' = "task2" /\ needsReturn')

C16_NoFireAfterDispatch == FireStep => ~iterCmd

C16_IterationOrder ==
    /\ [](C16_DispatchOrder)
    /\ [][C16_ReadToAck]_vars
    /\ [][C16_ArmAfterAck]_vars
    /\ [][C16_NoFireAfterDispatch]_vars

\* a line was dispatched while a return was overdue: the check of the same
\* iteration has not fired, the dwell having been renewed
C16_Witness ==
    /\ iterCmd
    /\ pc = "event"
    /\ Len(CmdSeq) = 2
    /\ CmdSeq[2].armed
    /\ FireIdx = {}
    /\ needsReturn
    /\ elapsed >= 2 * BigStep + SmallStep

----------------------------------------------------------------------------
(* C17: serialEvent appends no byte between the start of a dispatch and    *)
(* the clear of the buffer, so the bytes read, terminators left out, are   *)
(* exactly the texts of the dispatched commands, in order, followed by the *)
(* bytes still in the buffer: every byte is in one command, none is        *)
(* cleared undispatched.                                                   *)
RECURSIVE Flat(_)
Flat(texts) == IF texts = <<>> THEN <<>> ELSE Head(texts) \o Flat(Tail(texts))

IsData(c) == c # NL

----------------------------------------------------------------------------
(* C18: a line longer than the reserved capacity of 20 characters is       *)
(* completed by its terminator and dispatched as one command (the whole    *)
(* line: the String grows), acknowledged by exactly one OK, and the buffer *)
(* is empty for the line that follows, which is dispatched as itself.      *)
Overlong(l) == Len(l) > RESERVE

C18_OverlongLine ==
    (\E k \in 1..Len(sentLines) : Overlong(sentLines[k])) =>
        /\ Len(CmdSeq) <= Len(sentLines)
        /\ OkCount = Len(CmdSeq)
        /\ \A k \in 1..Len(CmdSeq) :
               /\ CmdSeq[k].raw = sentLines[k]
               /\ Cardinality(OksAfter(CmdPos(k))) = 1
        /\ (Drained /\ pc # "arm") =>
               (Len(CmdSeq) = Len(sentLines) /\ inputString = <<>>)

\* METAL behind sixteen spaces has moved the servo; the next line is itself
C18_Witness ==
    /\ Len(CmdSeq) = 2
    /\ Overlong(CmdSeq[1].raw)
    /\ CmdSeq[1].s = METAL
    /\ CmdSeq[2].raw = <<"x">>
    /\ Drained
    /\ pc = "task2"
    /\ inputString = <<>>

----------------------------------------------------------------------------
(* C19: for a return armed less than RETURN_DELAY ms before the clock      *)
(* wraps to 0, the check of line 93, before the wrap and after it, fires   *)
(* if and only if more than RETURN_DELAY ms have really passed since line  *)
(* 84 read the clock.                                                      *)
ArmedNearWrap ==
    /\ lastMoveTime[1] = HALF - 1
    /\ lastMoveTime[2] + RETURN_DELAY >= HALF

C19_Check ==
    (pc = "task2" /\ pc' = "event" /\ needsReturn /\ ArmedNearWrap) =>
        (FireStep <=> elapsed - dispatchAt > RETURN_DELAY)

C19_WrapAround == [][C19_Check]_vars

\* armed before the wrap, fired after it
C19_Witness ==
    /\ lastMoveTime[1] = HALF - 1
    /\ now[1] = 0
    /\ FireIdx # {}
    /\ ~needsReturn
    /\ log[Len(log)] = WriteEv(POS_HOME)
====
